---- MODULE Spec2Model ----
(***************************************************************************)
(* Media-hub indexing core: the Scanner (scan.ScanLibrary), the thumbnail  *)
(* worker (worker.ThumbWorker) and the streaming gateway                   *)
(* (stream.StreamByID), all working on one PostgreSQL catalog              *)
(* (library, media_item, scan_run and job tables) and one filesystem.      *)
(* library is the set of ids in the library table, scanRuns the rows of    *)
(* scan_run, Cfg the configuration the running backend has loaded.         *)
(*                                                                         *)
(* Every SQL statement is one atomic step.  A scan is the sequence         *)
(* ScanStart, one ScanVisit per walked path, ScanReconcile.  A worker poll *)
(* cycle is WorkerPoll, then WorkerLock and WorkerFinish per selected job, *)
(* then WorkerCycleEnd.  A stream request is StreamSelect, StreamOpen.     *)
(* A media_item row is identified by its absolute path (the unique key of  *)
(* the upsert); job.item_id refers to the row by that key.                 *)
(*                                                                         *)
(* History variables, read by the properties only: fails counts the failed *)
(* generations of each job, absentAll[s] is the set of paths absent from   *)
(* the filesystem ever since scan s started, hist follows two successive   *)
(* undisturbed scans, last describes the step just taken (where the        *)
(* specification records it).  bound holds the bounds of the specification *)
(* and the files that can exist in it, and never changes.                  *)
(***************************************************************************)
EXTENDS Integers, Sequences, FiniteSets, TLC

\* ---------------------------------------------------------------- bounds
\* scans started (each start reads a later clock value) and job rows ever
\* inserted, per specification
MaxTime == 2
MaxJobs == 2
CatalogMaxTime == 2
CatalogMaxJobs == 3
QueueMaxTime == 2
QueueMaxJobs == 1
RescanMaxTime == 3
RescanMaxJobs == 5
AdminMaxTime == 2
AdminMaxJobs == 2
CascadeMaxTime == 2
CascadeMaxJobs == 1
StreamMaxTime == 3
StreamMaxJobs == 2
OtherMaxTime == 3
OtherMaxJobs == 3

OrphanMaxTime == 2
OrphanMaxJobs == 1

CrashMaxTime == 3
CrashMaxJobs == 3

MetaMaxTime == 2
MetaMaxJobs == 2

BatchMaxScans == 12

RetryMaxTime == 2
RetryMaxJobs == 3

MaxDuration == 12100

OverlapMaxTime == 2
OverlapMaxJobs == 5

CancelMaxTime == 2
CancelMaxJobs == 1

DrainMaxPresent == 2

LibrariesMaxTime == 3
LibrariesMaxJobs == 6

\* ------------------------------------------------------ program constants
maxThumbAttempts == 5
BatchLimit == 10

\* ----------------------------------------------------------- configuration
Scanners == {1, 2}
Workers == {1, 2}
LibraryID == 1
LibraryIDs == {1, 2}
\* a second library, and a photo under its roots that is under no root of
\* the first
OtherLibrary == 2
OtherRootFile == "z.jpg"
\* the files that may exist under the roots of the library, in the lexical
\* order in which filepath.WalkDir visits them
WalkOrder == <<"a.bin", "a.jpg", "b.mp3">>
Paths == {WalkOrder[i] : i \in 1..Len(WalkOrder)}
ExtOf == [p \in Paths |-> IF p = "a.bin" THEN "bin" ELSE IF p = "a.jpg" THEN "jpg" ELSE "mp3"]
ExtPhoto == {"jpg"}
ExtAudio == {"mp3"}
ExtVideo == {"mp4"}
FileSize == [p \in Paths |-> IF p = "a.bin" THEN 30 ELSE IF p = "a.jpg" THEN 10 ELSE 20]
MediaFiles == {"a.jpg", "b.mp3"}

NullTime == -1
NullText == <<>>
NoJob == [jobID |-> 0, itemID |-> "", kind |-> "", attempts |-> 0]

VARIABLES now, fs, items, jobs, nextJobID,
          spc, startedAt, walkPos, absentAll,
          wpc, batch, cur,
          streamReq,
          fails, hist, last, bound,
          Cfg, library, scanRuns, video

scanVars == <<spc, startedAt, walkPos, absentAll>>
workerVars == <<wpc, batch, cur>>
vars == <<now, fs, items, jobs, nextJobID, spc, startedAt, walkPos, absentAll,
          wpc, batch, cur, streamReq, fails, hist, last, bound,
          Cfg, library, scanRuns, video>>

\* ------------------------------------------------------------------ scanner
\* kindForExt that ignores the IndexOther flag
kindForExt_AlwaysOther(ext) ==
    IF ext \in ExtPhoto THEN <<"photo", TRUE>>
    ELSE IF ext \in ExtAudio THEN <<"audio", TRUE>>
    ELSE IF ext \in ExtVideo THEN <<"video", TRUE>>
    ELSE <<"other", TRUE>>

\* kindForExt: <<kind, ok>>
kindForExt(ext) ==
    IF ext \in ExtPhoto THEN <<"photo", TRUE>>
    ELSE IF ext \in ExtAudio THEN <<"audio", TRUE>>
    ELSE IF ext \in ExtVideo THEN <<"video", TRUE>>
    ELSE IF Cfg.IndexOther THEN <<"other", TRUE>>
    ELSE <<"", FALSE>>

\* UpsertRow stamping the time of the statement instead of the run's start
UpsertRow_StampNow(its, path, kind, size, seen, t) ==
    IF path \in DOMAIN its
    THEN [its EXCEPT ![path] =
            [@ EXCEPT !.library_id = LibraryID, !.kind = kind, !.present = TRUE,
                      !.missing_since = NullTime, !.last_seen_at = now,
                      !.updated_at = now, !.size_bytes = size]]
    ELSE [p \in DOMAIN its \cup {path} |->
            IF p = path
            THEN [library_id |-> LibraryID, kind |-> kind, present |-> TRUE,
                  missing_since |-> NullTime, size_bytes |-> size,
                  last_seen_at |-> now, updated_at |-> now,
                  thumb_path |-> NullText,
                  id |-> Cardinality(DOMAIN its) + 1, created_at |-> t]
            ELSE its[p]]

\* UpsertRow whose conflict branch resets thumb_path
UpsertRow_ClearsThumb(its, path, kind, size, seen, t) ==
    IF path \in DOMAIN its
    THEN [its EXCEPT ![path] =
            [@ EXCEPT !.library_id = LibraryID, !.kind = kind, !.present = TRUE,
                      !.missing_since = NullTime, !.last_seen_at = seen,
                      !.updated_at = seen, !.size_bytes = size,
                      !.thumb_path = NullText]]
    ELSE [p \in DOMAIN its \cup {path} |->
            IF p = path
            THEN [library_id |-> LibraryID, kind |-> kind, present |-> TRUE,
                  missing_since |-> NullTime, size_bytes |-> size,
                  last_seen_at |-> seen, updated_at |-> seen,
                  thumb_path |-> NullText,
                  id |-> Cardinality(DOMAIN its) + 1, created_at |-> t]
            ELSE its[p]]

\* UpsertRow whose conflict branch leaves missing_since alone
UpsertRow_KeepMissingSince(its, path, kind, size, seen, t) ==
    IF path \in DOMAIN its
    THEN [its EXCEPT ![path] =
            [@ EXCEPT !.library_id = LibraryID, !.kind = kind, !.present = TRUE,
                      !.last_seen_at = seen,
                      !.updated_at = seen, !.size_bytes = size]]
    ELSE [p \in DOMAIN its \cup {path} |->
            IF p = path
            THEN [library_id |-> LibraryID, kind |-> kind, present |-> TRUE,
                  missing_since |-> NullTime, size_bytes |-> size,
                  last_seen_at |-> seen, updated_at |-> seen,
                  thumb_path |-> NullText,
                  id |-> Cardinality(DOMAIN its) + 1, created_at |-> t]
            ELSE its[p]]

\* insert into media_item ... on conflict (path) do update set ...
UpsertRow(its, path, kind, size, seen, t) ==
    IF path \in DOMAIN its
    THEN [its EXCEPT ![path] =
            [@ EXCEPT !.library_id = LibraryID, !.kind = kind, !.present = TRUE,
                      !.missing_since = NullTime, !.last_seen_at = seen,
                      !.updated_at = seen, !.size_bytes = size]]
    ELSE [p \in DOMAIN its \cup {path} |->
            IF p = path
            THEN [library_id |-> LibraryID, kind |-> kind, present |-> TRUE,
                  missing_since |-> NullTime, size_bytes |-> size,
                  last_seen_at |-> seen, updated_at |-> seen,
                  thumb_path |-> NullText,
                  id |-> Cardinality(DOMAIN its) + 1, created_at |-> t]
            ELSE its[p]]

NewJob(id, kind, item, t) ==
    [id |-> id, kind |-> kind, item_id |-> item, run_at |-> t, attempts |-> 0,
     locked_at |-> NullTime, last_error |-> NullText]

\* EnqueueAfterUpsert that enqueues a thumb job for a new row of any kind
EnqueueAfterUpsert_AnyKind(js, nid, isUpdate, kind, item, t) ==
    IF ~isUpdate
    THEN js \cup {NewJob(nid, "thumb", item, t)}
    ELSE js \cup {NewJob(nid, "metadata", item, t), NewJob(nid + 1, "thumb", item, t)}

\* EnqueueAfterUpsert that enqueues nothing for a row that already existed
EnqueueAfterUpsert_OnlyNew(js, nid, isUpdate, kind, item, t) ==
    IF ~isUpdate /\ kind \in {"video", "photo"}
    THEN js \cup {NewJob(nid, "thumb", item, t)}
    ELSE js

\* EnqueueAfterUpsert that enqueues for an existing row only if it is a
\* photo or a video
EnqueueAfterUpsert_MediaOnly(js, nid, isUpdate, kind, item, t) ==
    IF ~isUpdate /\ kind \in {"video", "photo"}
    THEN js \cup {NewJob(nid, "thumb", item, t)}
    ELSE IF isUpdate /\ kind \in {"video", "photo"}
    THEN js \cup {NewJob(nid, "metadata", item, t), NewJob(nid + 1, "thumb", item, t)}
    ELSE js

\* the jobs the walk callback inserts after the upsert; the job table has no
\* unique constraint besides its serial id, so "on conflict do nothing"
\* never suppresses a row
EnqueueAfterUpsert(js, nid, isUpdate, kind, item, t) ==
    IF ~isUpdate /\ kind \in {"video", "photo"}
    THEN js \cup {NewJob(nid, "thumb", item, t)}
    ELSE IF isUpdate
    THEN js \cup {NewJob(nid, "metadata", item, t), NewJob(nid + 1, "thumb", item, t)}
    ELSE js

JobsNeeded(isUpdate, kind) ==
    IF ~isUpdate /\ kind \in {"video", "photo"} THEN 1
    ELSE IF isUpdate THEN 2 ELSE 0

\* MarkMissing without the library_id=$1 test
MarkMissing_AnyLibrary(its, t, started) ==
    [p \in DOMAIN its |->
        IF its[p].last_seen_at < started /\ its[p].present
        THEN [its[p] EXCEPT !.present = FALSE,
                            !.missing_since = IF @ = NullTime THEN t ELSE @,
                            !.updated_at = t]
        ELSE its[p]]

\* MarkMissing that marks nothing
MarkMissing_Skip(its, t, started) == its

\* MarkMissing that deletes the rows it should mark
MarkMissing_Purge(its, t, started) ==
    [p \in {q \in DOMAIN its : ~(its[q].library_id = LibraryID /\ its[q].last_seen_at < started
                                    /\ its[q].present)} |-> its[p]]

\* MarkMissing without the present=true test and without the case: every
\* miss stamps missing_since again
MarkMissing_Restamp(its, t, started) ==
    [p \in DOMAIN its |->
        IF its[p].library_id = LibraryID /\ its[p].last_seen_at < started
        THEN [its[p] EXCEPT !.present = FALSE, !.missing_since = t, !.updated_at = t]
        ELSE its[p]]

\* MarkMissing comparing with <=, so that rows seen in this very run are
\* flipped too
MarkMissing_SeenToo(its, t, started) ==
    [p \in DOMAIN its |->
        IF its[p].library_id = LibraryID /\ its[p].last_seen_at <= started /\ its[p].present
        THEN [its[p] EXCEPT !.present = FALSE,
                            !.missing_since = IF @ = NullTime THEN t ELSE @,
                            !.updated_at = t]
        ELSE its[p]]

\* update media_item set present=false, missing_since=case ... where
\* library_id=$1 and last_seen_at < $3 and present=true
MarkMissing(its, t, started) ==
    [p \in DOMAIN its |->
        IF its[p].library_id = LibraryID /\ its[p].last_seen_at < started /\ its[p].present
        THEN [its[p] EXCEPT !.present = FALSE,
                            !.missing_since = IF @ = NullTime THEN t ELSE @,
                            !.updated_at = t]
        ELSE its[p]]

Idle == (\A s \in Scanners : spc[s] = "idle") /\ (\A w \in Workers : wpc[w] = "idle")
           /\ streamReq = ""

HistNone == [phase |-> 0, who |-> 0, items |-> << >>, jobs |-> {}]

LastNone == [op |-> "", paths |-> {}, kept |-> {}, pre |-> "", n |-> 0]

\* the value of last after a step described by l
Record(l) == IF bound.trace THEN l ELSE LastNone

\* Scanner and worker processes keep nothing between runs, so a new run is
\* given the lowest free process number.
LowestFree(pc, s) == \A t \in DOMAIN pc : t < s => pc[t] # "idle"

\* the position in WalkOrder of the next file after position i that can
\* exist in this specification
NextPos(i) ==
    LET S == {k \in (i + 1)..Len(WalkOrder) : WalkOrder[k] \in bound.files}
    IN IF S = {} THEN Len(WalkOrder) + 1
       ELSE CHOOSE k \in S : \A m \in S : k <= m

\* insert into scan_run(library_id, started_at) values ($1,$2) returning id;
\* the serial id and the clock advance together
NewScanRun(lib, t) ==
    [id |-> t + 1, library_id |-> lib, started_at |-> t, finished_at |-> NullTime]

\* update scan_run set finished_at=$2 where id=$1
FinishScanRun(runs, id, t) ==
    {IF r.id = id THEN [r EXCEPT !.finished_at = t] ELSE r : r \in runs}

\* ScanLibrary up to the walk: the library lookup succeeds, startedAt is
\* read from the clock and the scan_run row is inserted
ScanStart(s) ==
    /\ spc[s] = "idle"
    /\ LowestFree(spc, s)
    /\ now < bound.time
    /\ LibraryID \in library
    /\ scanRuns' = scanRuns \cup {NewScanRun(LibraryID, now)}
    /\ spc' = [spc EXCEPT ![s] = "walk"]
    /\ startedAt' = [startedAt EXCEPT ![s] = now]
    /\ now' = now + 1
    /\ walkPos' = [walkPos EXCEPT ![s] = NextPos(0)]
    /\ absentAll' = [absentAll EXCEPT ![s] = Paths \ fs]
    /\ hist' = IF Idle /\ hist.phase = 2
               THEN [hist EXCEPT !.phase = 3, !.who = s]
               ELSE IF Idle THEN [HistNone EXCEPT !.phase = 1, !.who = s]
               ELSE HistNone
    /\ last' = LastNone
    /\ UNCHANGED <<video, bound, Cfg, library, fs, items, jobs, nextJobID, workerVars, streamReq, fails>>

\* ScanVisit over a media_item table without the reference to library
ScanVisit_NoForeignKey(s) ==
    /\ spc[s] = "walk"
    /\ walkPos[s] <= Len(WalkOrder)
    /\ LET path == WalkOrder[walkPos[s]]
           k == kindForExt(ExtOf[path])
           isUpdate == path \in DOMAIN items
       IN IF path \in fs /\ k[2]
          THEN /\ nextJobID + JobsNeeded(isUpdate, k[1]) <= bound.jobs + 1
               /\ items' = UpsertRow(items, path, k[1], FileSize[path], startedAt[s], now)
               /\ jobs' = EnqueueAfterUpsert(jobs, nextJobID, isUpdate, k[1], path, now)
               /\ nextJobID' = nextJobID + JobsNeeded(isUpdate, k[1])
               /\ fails' = fails \o [i \in 1..JobsNeeded(isUpdate, k[1]) |-> 0]
               /\ last' = Record([LastNone EXCEPT !.op = "upsert", !.paths = {path},
                                   !.n = startedAt[s],
                                   !.pre = IF ~isUpdate THEN "new"
                                           ELSE IF items[path].present THEN "present"
                                           ELSE "missing"])
          ELSE /\ UNCHANGED <<items, jobs, nextJobID, fails>>
               /\ last' = IF path \in fs /\ ~k[2]
                          THEN Record([LastNone EXCEPT !.op = "skip", !.paths = {path}])
                          ELSE LastNone
    /\ walkPos' = [walkPos EXCEPT ![s] = NextPos(@)]
    /\ hist' = IF hist.who = s THEN hist ELSE HistNone
    /\ UNCHANGED <<video, bound, Cfg, library, scanRuns, now, fs, spc, startedAt, absentAll, workerVars, streamReq>>

\* one call of walkFn; the upsert of a row whose library is gone violates
\* the foreign key and is skipped like every other per-file error
ScanVisit(s) ==
    /\ spc[s] = "walk"
    /\ walkPos[s] <= Len(WalkOrder)
    /\ LET path == WalkOrder[walkPos[s]]
           k == kindForExt(ExtOf[path])
           isUpdate == path \in DOMAIN items
       IN IF path \in fs /\ k[2] /\ LibraryID \in library
          THEN /\ nextJobID + JobsNeeded(isUpdate, k[1]) <= bound.jobs + 1
               /\ items' = UpsertRow(items, path, k[1], FileSize[path], startedAt[s], now)
               /\ jobs' = EnqueueAfterUpsert(jobs, nextJobID, isUpdate, k[1], path, now)
               /\ nextJobID' = nextJobID + JobsNeeded(isUpdate, k[1])
               /\ fails' = fails \o [i \in 1..JobsNeeded(isUpdate, k[1]) |-> 0]
               /\ last' = Record([LastNone EXCEPT !.op = "upsert", !.paths = {path},
                                   !.n = startedAt[s],
                                   !.pre = IF ~isUpdate THEN "new"
                                           ELSE IF items[path].present THEN "present"
                                           ELSE "missing"])
          ELSE /\ UNCHANGED <<items, jobs, nextJobID, fails>>
               /\ last' = IF path \in fs /\ ~k[2]
                          THEN Record([LastNone EXCEPT !.op = "skip", !.paths = {path}])
                          ELSE LastNone
    /\ walkPos' = [walkPos EXCEPT ![s] = NextPos(@)]
    /\ hist' = IF hist.who = s THEN hist ELSE HistNone
    /\ UNCHANGED <<video, bound, Cfg, library, scanRuns, now, fs, spc, startedAt, absentAll, workerVars, streamReq>>

ScanReconcile(s) ==
    /\ spc[s] = "walk"
    /\ walkPos[s] > Len(WalkOrder)
    /\ items' = MarkMissing(items, now, startedAt[s])
    /\ scanRuns' = FinishScanRun(scanRuns, startedAt[s] + 1, now)
    /\ spc' = [spc EXCEPT ![s] = "idle"]
    /\ startedAt' = [startedAt EXCEPT ![s] = 0]
    /\ walkPos' = [walkPos EXCEPT ![s] = 1]
    /\ absentAll' = [absentAll EXCEPT ![s] = {}]
    /\ hist' = IF hist.who = s /\ hist.phase = 1
               THEN [phase |-> 2, who |-> 0, items |-> items', jobs |-> jobs]
               ELSE IF hist.who = s /\ hist.phase = 3
               THEN [hist EXCEPT !.phase = 4, !.who = 0]
               ELSE HistNone
    /\ last' = Record([LastNone EXCEPT !.op = "reconcile", !.n = startedAt[s],
                    !.paths = {p \in absentAll[s] \cap DOMAIN items : items[p].missing_since = NullTime},
                    !.kept = {p \in absentAll[s] \cap DOMAIN items : items[p].missing_since # NullTime}])
    /\ UNCHANGED <<video, bound, Cfg, library, now, fs, jobs, nextJobID, workerVars, streamReq, fails>>

\* ScanLibraryNotFound that records a scan_run row before it fails
ScanLibraryNotFound_RecordsRun(lib) ==
    /\ lib \notin library
    /\ scanRuns' = scanRuns \cup {NewScanRun(lib, now)}
    /\ hist' = HistNone
    /\ last' = Record([LastNone EXCEPT !.op = "scanerror", !.pre = "nolibrary", !.n = lib])
    /\ UNCHANGED <<video, bound, Cfg, library, now, fs, items, jobs, nextJobID, scanVars,
                   workerVars, streamReq, fails>>

\* ScanLibrary for a library id without a row: select roots fails and the
\* call returns "library not found"
ScanLibraryNotFound(lib) ==
    /\ lib \notin library
    /\ hist' = HistNone
    /\ last' = Record([LastNone EXCEPT !.op = "scanerror", !.pre = "nolibrary", !.n = lib])
    /\ UNCHANGED <<video, bound, Cfg, library, scanRuns, now, fs, items, jobs, nextJobID, scanVars,
                   workerVars, streamReq, fails>>

\* the store fails on insert into scan_run: ScanLibrary returns the error
ScanStartError(s) ==
    /\ spc[s] = "idle"
    /\ LowestFree(spc, s)
    /\ LibraryID \in library
    /\ hist' = HistNone
    /\ last' = Record([LastNone EXCEPT !.op = "scanerror", !.pre = "scan_run",
                                       !.n = LibraryID])
    /\ UNCHANGED <<video, bound, Cfg, library, scanRuns, now, fs, items, jobs, nextJobID, scanVars,
                   workerVars, streamReq, fails>>

\* walkFn returns nil on a directory-entry error, a stat error or a failed
\* upsert: the file is passed over and the walk goes on
ScanVisitError(s) ==
    /\ spc[s] = "walk"
    /\ walkPos[s] <= Len(WalkOrder)
    /\ walkPos' = [walkPos EXCEPT ![s] = NextPos(@)]
    /\ hist' = HistNone
    /\ last' = LastNone
    /\ UNCHANGED <<video, bound, Cfg, library, scanRuns, now, fs, items, jobs, nextJobID, spc,
                   startedAt, absentAll, workerVars, streamReq, fails>>

\* ScanReconcileError that still closes the scan_run row
ScanReconcileError_Finishes(s) ==
    /\ spc[s] = "walk"
    /\ walkPos[s] > Len(WalkOrder)
    /\ scanRuns' = FinishScanRun(scanRuns, startedAt[s] + 1, now)
    /\ spc' = [spc EXCEPT ![s] = "idle"]
    /\ startedAt' = [startedAt EXCEPT ![s] = 0]
    /\ walkPos' = [walkPos EXCEPT ![s] = 1]
    /\ absentAll' = [absentAll EXCEPT ![s] = {}]
    /\ hist' = HistNone
    /\ last' = Record([LastNone EXCEPT !.op = "scanerror", !.pre = "reconcile",
                                       !.n = LibraryID])
    /\ UNCHANGED <<video, bound, Cfg, library, now, fs, items, jobs, nextJobID,
                   workerVars, streamReq, fails>>

\* the store fails on the reconciliation update: ScanLibrary returns the
\* error, nothing is marked missing and finished_at stays null
ScanReconcileError(s) ==
    /\ spc[s] = "walk"
    /\ walkPos[s] > Len(WalkOrder)
    /\ spc' = [spc EXCEPT ![s] = "idle"]
    /\ startedAt' = [startedAt EXCEPT ![s] = 0]
    /\ walkPos' = [walkPos EXCEPT ![s] = 1]
    /\ absentAll' = [absentAll EXCEPT ![s] = {}]
    /\ hist' = HistNone
    /\ last' = Record([LastNone EXCEPT !.op = "scanerror", !.pre = "reconcile",
                                       !.n = LibraryID])
    /\ UNCHANGED <<video, bound, Cfg, library, scanRuns, now, fs, items, jobs, nextJobID,
                   workerVars, streamReq, fails>>

\* the process dies during the walk of scan s: between the upsert of the
\* file under the walk and the insert of its jobs (afterUpsert), or at some
\* point where every statement issued so far is complete; nothing of the
\* run is resumed, its scan_run row keeps a null finished_at
ScanCrash(s) ==
    /\ spc[s] = "walk"
    /\ \E afterUpsert \in BOOLEAN :
          IF afterUpsert
          THEN /\ walkPos[s] <= Len(WalkOrder)
               /\ LET path == WalkOrder[walkPos[s]]
                      k == kindForExt(ExtOf[path])
                  IN /\ path \in fs /\ k[2] /\ LibraryID \in library
                     /\ items' = UpsertRow(items, path, k[1], FileSize[path], startedAt[s], now)
                     /\ last' = Record([LastNone EXCEPT !.op = "scancrash", !.paths = {path},
                                         !.n = startedAt[s],
                                         !.pre = IF path \notin DOMAIN items THEN "new"
                                                 ELSE IF items[path].present THEN "present"
                                                 ELSE "missing"])
          ELSE /\ items' = items
               /\ last' = Record([LastNone EXCEPT !.op = "scancrash", !.n = startedAt[s]])
    /\ spc' = [spc EXCEPT ![s] = "idle"]
    /\ startedAt' = [startedAt EXCEPT ![s] = 0]
    /\ walkPos' = [walkPos EXCEPT ![s] = 1]
    /\ absentAll' = [absentAll EXCEPT ![s] = {}]
    /\ hist' = HistNone
    /\ UNCHANGED <<video, bound, Cfg, library, scanRuns, now, fs, jobs, nextJobID,
                   workerVars, streamReq, fails>>

\* ------------------------------------------------------------------ library
\* DELETE FROM library WHERE id=$1, with the cascades of the schema:
\* media_item and scan_run rows of the library, job rows of those items
DeleteLibrary(id) ==
    /\ id \in library
    /\ library' = library \ {id}
    /\ items' = [p \in {q \in DOMAIN items : items[q].library_id # id} |-> items[p]]
    /\ jobs' = {j \in jobs : j.item_id \in DOMAIN items'}
    /\ scanRuns' = {r \in scanRuns : r.library_id # id}
    /\ hist' = HistNone
    /\ last' = Record([LastNone EXCEPT !.op = "deletelibrary", !.n = id,
                          !.paths = {q \in DOMAIN items : items[q].library_id = id}])
    /\ UNCHANGED <<video, bound, Cfg, now, fs, nextJobID, scanVars, workerVars, streamReq, fails>>

\* --------------------------------------------------------------- filesystem
CreateFile(p) ==
    /\ p \in bound.files
    /\ p \notin fs
    /\ fs' = fs \cup {p}
    /\ absentAll' = [s \in Scanners |-> absentAll[s] \ {p}]
    /\ hist' = HistNone
    /\ last' = LastNone
    /\ UNCHANGED <<video, bound, Cfg, library, scanRuns, now, items, jobs, nextJobID, spc, startedAt, walkPos,
                   workerVars, streamReq, fails>>

DeleteFile(p) ==
    /\ p \in fs
    /\ fs' = fs \ {p}
    /\ hist' = HistNone
    /\ last' = LastNone
    /\ UNCHANGED <<video, bound, Cfg, library, scanRuns, now, items, jobs, nextJobID, scanVars, workerVars, streamReq, fails>>

\* ------------------------------------------------------- streaming gateway
\* StreamSelect without the test of present
StreamSelect_NoPresentCheck(p) ==
    /\ streamReq = ""
    /\ p \in DOMAIN items
    /\ streamReq' = p
    /\ hist' = HistNone
    /\ last' = LastNone
    /\ UNCHANGED <<video, bound, Cfg, library, scanRuns, now, fs, items, jobs, nextJobID, scanVars, workerVars, fails>>

\* select path, present from media_item where id=$1, for a row that exists
\* and is present: the request goes on to open the file
StreamSelect(p) ==
    /\ streamReq = ""
    /\ p \in DOMAIN items
    /\ items[p].present
    /\ streamReq' = p
    /\ hist' = HistNone
    /\ last' = LastNone
    /\ UNCHANGED <<video, bound, Cfg, library, scanRuns, now, fs, items, jobs, nextJobID, scanVars, workerVars, fails>>

\* StreamByID for an id without a row or with present=false: http.NotFound
\* right after the select
StreamNotFound(p) ==
    /\ IF p \in DOMAIN items THEN ~items[p].present ELSE TRUE
    /\ hist' = HistNone
    /\ last' = Record([LastNone EXCEPT !.op = "notfound", !.paths = {p},
                          !.pre = IF p \in DOMAIN items THEN "absent" ELSE "unknown"])
    /\ UNCHANGED <<video, bound, Cfg, library, scanRuns, now, fs, items, jobs, nextJobID, scanVars,
                   workerVars, streamReq, fails>>

\* StreamMarkMissing with missing_since=$2 in place of the coalesce
StreamMarkMissing_Overwrite(its, id, t) ==
    IF id \in DOMAIN its
    THEN [its EXCEPT ![id] = [@ EXCEPT !.present = FALSE, !.missing_since = t,
                                       !.updated_at = t]]
    ELSE its

\* StreamMarkMissing that flips present and leaves missing_since alone
StreamMarkMissing_NoStamp(its, id, t) ==
    IF id \in DOMAIN its
    THEN [its EXCEPT ![id] = [@ EXCEPT !.present = FALSE, !.updated_at = t]]
    ELSE its

\* update media_item set present=false, missing_since=coalesce(missing_since,$2),
\* updated_at=$2 where id=$1
StreamMarkMissing(its, id, t) ==
    IF id \in DOMAIN its
    THEN [its EXCEPT ![id] = [@ EXCEPT !.present = FALSE,
                                       !.missing_since = IF @ = NullTime THEN t ELSE @,
                                       !.updated_at = t]]
    ELSE its

\* StreamServe that stamps the row it serves
StreamServe_Touches(its, id, t) ==
    IF id \in DOMAIN its
    THEN [its EXCEPT ![id] = [@ EXCEPT !.last_seen_at = t, !.updated_at = t]]
    ELSE its

\* StreamByID after os.Open succeeded: f.Stat, the headers and
\* http.ServeContent, or "stat error"; no statement is sent to the store
StreamServe(its, id, t) == its

\* os.Open(path): when it succeeds the file is served or, when f.Stat fails,
\* the answer is 500 (both "served": the two differ in the response only);
\* when it fails the row is marked missing and the answer is http.NotFound
\* ("streamfail")
StreamOpen ==
    /\ streamReq # ""
    /\ items' = IF streamReq \in fs THEN StreamServe(items, streamReq, now)
                 ELSE StreamMarkMissing(items, streamReq, now)
    /\ streamReq' = ""
    /\ hist' = HistNone
    /\ last' = IF streamReq \in fs
               THEN Record([LastNone EXCEPT !.op = "served", !.paths = {streamReq}])
               ELSE Record([LastNone EXCEPT !.op = "streamfail", !.paths = {streamReq},
                                   !.n = now,
                                   !.pre = IF streamReq \notin DOMAIN items THEN "gone"
                                           ELSE IF items[streamReq].missing_since = NullTime
                                           THEN "unset" ELSE "set"])
    /\ UNCHANGED <<video, bound, Cfg, library, scanRuns, now, fs, jobs, nextJobID, scanVars, workerVars, fails>>

\* ---------------------------------------------------------- thumbnail worker
\* Pending that reads jobs of every kind
Pending_AnyKind(js, its) ==
    {j \in js : j.locked_at = NullTime /\ j.item_id \in DOMAIN its}

\* Pending that does not look at locked_at
Pending_IgnoresLock(js, its) ==
    {j \in js : j.kind = "thumb" /\ j.item_id \in DOMAIN its}

\* the rows of: select ... from job j join media_item mi on mi.id = j.item_id
\* where j.kind = 'thumb' and j.locked_at is null
Pending(js, its) ==
    {j \in js : j.kind = "thumb" /\ j.locked_at = NullTime /\ j.item_id \in DOMAIN its}

\* order by run_at asc limit n over the rows P: every result the query may
\* return (rows with equal run_at come in any order)
RECURSIVE OrderByRunAt(_, _)
OrderByRunAt(P, n) ==
    IF n = 0 \/ P = {} THEN {<< >>}
    ELSE UNION {{<<x>> \o t : t \in OrderByRunAt(P \ {x}, n - 1)} :
                   x \in {y \in P : \A z \in P : y.run_at <= z.run_at}}

\* SelectBatches without the limit
SelectBatches_NoLimit(js, its) == OrderByRunAt(Pending(js, its), Cardinality(js))

\* ... order by j.run_at asc limit 10
SelectBatches(js, its) == OrderByRunAt(Pending(js, its), BatchLimit)

ThumbJobOf(j, its) ==
    [jobID |-> j.id, itemID |-> j.item_id, kind |-> its[j.item_id].kind,
     attempts |-> j.attempts]

WorkerPoll(w) ==
    /\ wpc[w] = "idle"
    /\ LowestFree(wpc, w)
    /\ \E sq \in SelectBatches(jobs, items) :
          batch' = [batch EXCEPT ![w] = [i \in 1..Len(sq) |-> ThumbJobOf(sq[i], items)]]
    /\ wpc' = [wpc EXCEPT ![w] = "batch"]
    /\ hist' = HistNone
    /\ last' = LastNone
    /\ UNCHANGED <<video, bound, Cfg, library, scanRuns, now, fs, items, jobs, nextJobID, scanVars, cur, streamReq, fails>>

\* update job set locked_at = now() where id = $1
LockJob(js, id, t) ==
    {IF j.id = id THEN [j EXCEPT !.locked_at = t] ELSE j : j \in js}

WorkerLock(w) ==
    /\ wpc[w] = "batch"
    /\ batch[w] # << >>
    /\ jobs' = LockJob(jobs, Head(batch[w]).jobID, now)
    /\ cur' = [cur EXCEPT ![w] = Head(batch[w])]
    /\ batch' = [batch EXCEPT ![w] = Tail(@)]
    /\ wpc' = [wpc EXCEPT ![w] = "gen"]
    /\ hist' = HistNone
    /\ last' = LastNone
    /\ UNCHANGED <<video, bound, Cfg, library, scanRuns, now, fs, items, nextJobID, scanVars, streamReq, fails>>

\* generateThumbnail that hands a source of any kind to the external tool
generateThumbnail_AnyKind(srcPath, kind, toolOk) ==
    IF srcPath \notin fs THEN FALSE ELSE toolOk

\* generateThumbnail without the check that the source exists
generateThumbnail_NoStat(srcPath, kind, toolOk) ==
    IF kind = "photo" THEN toolOk
    ELSE IF kind = "video" THEN toolOk
    ELSE FALSE

\* generateThumbnail: TRUE when it returns nil; toolOk is the outcome of the
\* external convert / ffmpeg run
generateThumbnail(srcPath, kind, toolOk) ==
    IF srcPath \notin fs THEN FALSE
    ELSE IF kind = "photo" THEN toolOk
    ELSE IF kind = "video" THEN toolOk
    ELSE FALSE

\* DeleteJob that removes nothing
DeleteJob_Keeps(js, id) == js

\* delete from job where id = $1
DeleteJob(js, id) == {j \in js : j.id # id}

\* RetryJob that leaves the lock in place
RetryJob_KeepsLock(js, id) ==
    {IF j.id = id
     THEN [j EXCEPT !.attempts = @ + 1, !.last_error = <<"err">>]
     ELSE j : j \in js}

\* update job set locked_at = null, attempts = attempts + 1, last_error = $2
RetryJob(js, id) ==
    {IF j.id = id
     THEN [j EXCEPT !.locked_at = NullTime, !.attempts = @ + 1, !.last_error = <<"err">>]
     ELSE j : j \in js}

\* the failure branch of processJobs, from the attempts value read at selection
FailJob(js, tj) ==
    IF tj.attempts + 1 >= maxThumbAttempts
    THEN DeleteJob(js, tj.jobID)
    ELSE RetryJob(js, tj.jobID)

ThumbPathOf(itemID) == <<"ThumbDir", itemID>>

\* SetThumbPath that persists nothing
SetThumbPath_Skip(its, id) == its

\* update media_item set thumb_path = $2 where id = $1
SetThumbPath(its, id) ==
    IF id \in DOMAIN its THEN [its EXCEPT ![id].thumb_path = ThumbPathOf(id)] ELSE its

\* WorkerFinish that marks the item missing when generation fails
WorkerFinish_MarksMissing(w) ==
    /\ wpc[w] = "gen"
    /\ \E toolOk \in BOOLEAN :
          IF generateThumbnail(cur[w].itemID, cur[w].kind, toolOk)
          THEN /\ items' = SetThumbPath(items, cur[w].itemID)
               /\ jobs' = DeleteJob(jobs, cur[w].jobID)
               /\ fails' = fails
               /\ last' = Record([LastNone EXCEPT !.op = "success", !.paths = {cur[w].itemID},
                                                  !.n = cur[w].attempts])
          ELSE /\ jobs' = FailJob(jobs, cur[w])
               /\ fails' = [fails EXCEPT ![cur[w].jobID] = @ + 1]
               /\ items' = StreamMarkMissing(items, cur[w].itemID, now)
               /\ last' = Record([LastNone EXCEPT !.op = "fail", !.paths = {cur[w].itemID},
                                                  !.n = cur[w].attempts])
    /\ cur' = [cur EXCEPT ![w] = NoJob]
    /\ wpc' = [wpc EXCEPT ![w] = "batch"]
    /\ hist' = HistNone
    /\ UNCHANGED <<video, bound, Cfg, library, scanRuns, now, fs, nextJobID, scanVars, batch, streamReq>>

\* the end of one job of the batch: generateThumbnail has returned
WorkerFinish(w) ==
    /\ wpc[w] = "gen"
    /\ \E toolOk \in BOOLEAN :
          IF generateThumbnail(cur[w].itemID, cur[w].kind, toolOk)
          THEN /\ items' = SetThumbPath(items, cur[w].itemID)
               /\ jobs' = DeleteJob(jobs, cur[w].jobID)
               /\ fails' = fails
               /\ last' = Record([LastNone EXCEPT !.op = "success", !.paths = {cur[w].itemID},
                                                  !.n = cur[w].attempts])
          ELSE /\ jobs' = FailJob(jobs, cur[w])
               /\ fails' = [fails EXCEPT ![cur[w].jobID] = @ + 1]
               /\ items' = items
               /\ last' = Record([LastNone EXCEPT !.op = "fail", !.paths = {cur[w].itemID},
                                                  !.n = cur[w].attempts])
    /\ cur' = [cur EXCEPT ![w] = NoJob]
    /\ wpc' = [wpc EXCEPT ![w] = "batch"]
    /\ hist' = HistNone
    /\ UNCHANGED <<video, bound, Cfg, library, scanRuns, now, fs, nextJobID, scanVars, batch, streamReq>>

WorkerCycleEnd(w) ==
    /\ wpc[w] = "batch"
    /\ batch[w] = << >>
    /\ wpc' = [wpc EXCEPT ![w] = "idle"]
    /\ hist' = HistNone
    /\ last' = LastNone
    /\ UNCHANGED <<video, bound, Cfg, library, scanRuns, now, fs, items, jobs, nextJobID, scanVars, batch, cur, streamReq, fails>>

\* the lock statement fails (the context is cancelled, the connection is
\* lost): processJobs goes on to the next job of the batch
WorkerLockError(w) ==
    /\ wpc[w] = "batch"
    /\ batch[w] # << >>
    /\ batch' = [batch EXCEPT ![w] = Tail(@)]
    /\ hist' = HistNone
    /\ last' = LastNone
    /\ UNCHANGED <<video, bound, Cfg, library, scanRuns, now, fs, items, jobs, nextJobID, scanVars,
                   wpc, cur, streamReq, fails>>

\* generateThumbnail has returned and the statement that ends the job (the
\* delete, or the unlock with attempts + 1) fails; its error is discarded
\* and the loop goes on. After a successful generation the thumb_path
\* update before it may have gone through (thumbSaved) or failed too.
WorkerFinishError(w) ==
    /\ wpc[w] = "gen"
    /\ \E toolOk \in BOOLEAN : \E thumbSaved \in BOOLEAN :
          IF generateThumbnail(cur[w].itemID, cur[w].kind, toolOk)
          THEN /\ items' = IF thumbSaved THEN SetThumbPath(items, cur[w].itemID) ELSE items
               /\ fails' = fails
          ELSE /\ items' = items
               /\ fails' = [fails EXCEPT ![cur[w].jobID] = @ + 1]
    /\ last' = Record([LastNone EXCEPT !.op = "storeerror", !.paths = {cur[w].itemID},
                                       !.n = cur[w].jobID])
    /\ cur' = [cur EXCEPT ![w] = NoJob]
    /\ wpc' = [wpc EXCEPT ![w] = "batch"]
    /\ hist' = HistNone
    /\ UNCHANGED <<video, bound, Cfg, library, scanRuns, now, fs, jobs, nextJobID, scanVars, batch, streamReq>>

\* the process of worker w dies in the middle of a poll cycle: what it read
\* into memory is gone, the job rows stay as its last statement left them
WorkerCrash(w) ==
    /\ wpc[w] # "idle"
    /\ wpc' = [wpc EXCEPT ![w] = "idle"]
    /\ batch' = [batch EXCEPT ![w] = << >>]
    /\ last' = Record([LastNone EXCEPT !.op = "crash",
                          !.paths = IF wpc[w] = "gen" THEN {cur[w].itemID} ELSE {},
                          !.pre = wpc[w], !.n = cur[w].jobID])
    /\ cur' = [cur EXCEPT ![w] = NoJob]
    /\ hist' = HistNone
    /\ UNCHANGED <<video, bound, Cfg, library, scanRuns, now, fs, items, jobs, nextJobID, scanVars, streamReq, fails>>

\* ------------------------------------------------------- video thumbnails
\* durations and seek offsets are counted in ticks of 1/400 s, in which
\* 10% and 25% of a duration given in tenths of a second are whole numbers
TicksPerSecond == 400

\* the duration ffprobe reports, from 0 to MaxDuration tenths of a second
Durations == {40 * d : d \in 0..MaxDuration}

\* ffprobe exits with an error, or prints what %f does not parse
ProbeError == -1

NoSeek == -1

\* getVideoDuration: the reported duration, 30 s when there is none
DefaultDuration == 30 * TicksPerSecond

getVideoDuration(probe) == IF probe = ProbeError THEN DefaultDuration ELSE probe

\* seekTime without the fallback for short videos
seekTime_NoFallback(duration) ==
    LET tenth == duration \div 10
        atLeast == IF tenth < 5 * TicksPerSecond THEN 5 * TicksPerSecond ELSE tenth
    IN IF atLeast > 120 * TicksPerSecond THEN 120 * TicksPerSecond ELSE atLeast

\* the seek time generateVideoThumb computes from the duration
seekTime(duration) ==
    LET tenth == duration \div 10
        atLeast == IF tenth < 5 * TicksPerSecond THEN 5 * TicksPerSecond ELSE tenth
        atMost == IF atLeast > 120 * TicksPerSecond THEN 120 * TicksPerSecond ELSE atLeast
    IN IF atMost > duration THEN duration \div 4 ELSE atMost

VideoNone == [probe |-> ProbeError, seek |-> NoSeek]

\* generateVideoThumb up to the ffmpeg command line, for the probe result
\* video.probe
GenerateVideoThumb ==
    /\ video.seek = NoSeek
    /\ video' = [video EXCEPT !.seek = seekTime(getVideoDuration(video.probe))]
    /\ UNCHANGED <<bound, Cfg, library, scanRuns, now, fs, items, jobs, nextJobID, scanVars,
                   workerVars, streamReq, fails, hist, last>>

\* ------------------------------------------------------------ the process
\* the backend is stopped while nothing is in progress and started again:
\* main loads the configuration from the environment (INDEX_OTHER)
Restart(c) ==
    /\ Idle
    /\ c # Cfg
    /\ Cfg' = c
    /\ hist' = HistNone
    /\ last' = LastNone
    /\ UNCHANGED <<video, bound, library, scanRuns, now, fs, items, jobs, nextJobID, scanVars,
                   workerVars, streamReq, fails>>

InitState ==
    /\ now = 0
    /\ fs \in SUBSET bound.files
    /\ library = {LibraryID}
    /\ scanRuns = {}
    /\ items = << >>
    /\ jobs = {}
    /\ nextJobID = 1
    /\ spc = [s \in Scanners |-> "idle"]
    /\ startedAt = [s \in Scanners |-> 0]
    /\ walkPos = [s \in Scanners |-> 1]
    /\ absentAll = [s \in Scanners |-> {}]
    /\ wpc = [w \in Workers |-> "idle"]
    /\ batch = [w \in Workers |-> << >>]
    /\ cur = [w \in Workers |-> NoJob]
    /\ streamReq = ""
    /\ fails = << >>
    /\ hist = HistNone
    /\ last = LastNone
    /\ video = VideoNone

\* the configuration main loads: INDEX_OTHER unset
CfgDefault == [IndexOther |-> FALSE]

Init ==
    /\ bound = [time |-> MaxTime, jobs |-> MaxJobs, trace |-> TRUE, files |-> MediaFiles]
    /\ Cfg = CfgDefault
    /\ InitState

\* the program as main starts it, with one scan request at a time: scans,
\* stream requests that reach os.Open and the one worker loop
Next ==
    \/ ScanStart(1)
    \/ ScanVisit(1)
    \/ ScanReconcile(1)
    \/ \E p \in Paths : CreateFile(p)
    \/ \E p \in Paths : DeleteFile(p)
    \/ \E p \in Paths : StreamSelect(p)
    \/ StreamOpen
    \/ WorkerPoll(1)
    \/ WorkerLock(1)
    \/ WorkerFinish(1)
    \/ WorkerCycleEnd(1)

Spec == Init /\ [][Next]_vars

\* the catalog under overlapping scans (handleScan starts one goroutine per
\* request) and streaming, with more runs and no worker
NextCatalog ==
    \/ \E s \in Scanners : ScanStart(s)
    \/ \E s \in Scanners : ScanVisit(s)
    \/ \E s \in Scanners : ScanReconcile(s)
    \/ \E p \in Paths : CreateFile(p)
    \/ \E p \in Paths : DeleteFile(p)
    \/ \E p \in Paths : StreamSelect(p)
    \/ StreamOpen

InitCatalog ==
    /\ bound = [time |-> CatalogMaxTime, jobs |-> CatalogMaxJobs, trace |-> TRUE,
                files |-> MediaFiles]
    /\ Cfg = CfgDefault
    /\ InitState

SpecCatalog == InitCatalog /\ [][NextCatalog]_vars

\* the job queue with the workers of two backend processes on the same store
NextQueue ==
    \/ ScanStart(1)
    \/ ScanVisit(1)
    \/ ScanReconcile(1)
    \/ \E p \in Paths : CreateFile(p)
    \/ \E p \in Paths : DeleteFile(p)
    \/ \E w \in Workers : WorkerPoll(w)
    \/ \E w \in Workers : WorkerLock(w)
    \/ \E w \in Workers : WorkerFinish(w)
    \/ \E w \in Workers : WorkerCycleEnd(w)

InitQueue ==
    /\ bound = [time |-> QueueMaxTime, jobs |-> QueueMaxJobs, trace |-> TRUE,
                files |-> MediaFiles]
    /\ Cfg = CfgDefault
    /\ InitState

SpecQueue == InitQueue /\ [][NextQueue]_vars

\* one scan at a time and the one worker: successive runs of ScanLibrary
NextRescan ==
    \/ ScanStart(1)
    \/ ScanVisit(1)
    \/ ScanReconcile(1)
    \/ \E p \in Paths : CreateFile(p)
    \/ \E p \in Paths : DeleteFile(p)
    \/ WorkerPoll(1)
    \/ WorkerLock(1)
    \/ WorkerFinish(1)
    \/ WorkerCycleEnd(1)

\* three runs over the one photo: the run that inserts it, and the two
\* successive runs that are compared
InitRescan ==
    /\ bound = [time |-> RescanMaxTime, jobs |-> RescanMaxJobs, trace |-> FALSE,
                files |-> {"a.jpg"}]
    /\ Cfg = CfgDefault
    /\ InitState

SpecRescan == InitRescan /\ [][NextRescan]_vars

\* scans with a store that can fail under them, and deletion of the library
NextAdmin ==
    \/ ScanStart(1)
    \/ ScanVisit(1)
    \/ ScanReconcile(1)
    \/ ScanStartError(1)
    \/ ScanVisitError(1)
    \/ ScanReconcileError(1)
    \/ \E lib \in LibraryIDs : ScanLibraryNotFound(lib)
    \/ \E lib \in LibraryIDs : DeleteLibrary(lib)
    \/ \E p \in Paths : CreateFile(p)
    \/ \E p \in Paths : DeleteFile(p)

InitAdmin ==
    /\ bound = [time |-> AdminMaxTime, jobs |-> AdminMaxJobs, trace |-> TRUE,
                files |-> MediaFiles]
    /\ Cfg = CfgDefault
    /\ InitState

SpecAdmin == InitAdmin /\ [][NextAdmin]_vars

\* the scanner, the worker and the streaming gateway with deletion of the
\* library
NextCascade ==
    \/ ScanStart(1)
    \/ ScanVisit(1)
    \/ ScanReconcile(1)
    \/ \E lib \in LibraryIDs : DeleteLibrary(lib)
    \/ \E p \in Paths : CreateFile(p)
    \/ \E p \in Paths : DeleteFile(p)
    \/ \E p \in Paths : StreamSelect(p)
    \/ StreamOpen
    \/ WorkerPoll(1)
    \/ WorkerLock(1)
    \/ WorkerFinish(1)
    \/ WorkerCycleEnd(1)

InitCascade ==
    /\ bound = [time |-> CascadeMaxTime, jobs |-> CascadeMaxJobs, trace |-> TRUE,
                files |-> MediaFiles]
    /\ Cfg = CfgDefault
    /\ InitState

SpecCascade == InitCascade /\ [][NextCascade]_vars

\* the streaming gateway next to scans of the library
NextStream ==
    \/ ScanStart(1)
    \/ ScanVisit(1)
    \/ ScanReconcile(1)
    \/ \E p \in Paths : CreateFile(p)
    \/ \E p \in Paths : DeleteFile(p)
    \/ \E p \in Paths : StreamSelect(p)
    \/ \E p \in Paths : StreamNotFound(p)
    \/ StreamOpen

InitStream ==
    /\ bound = [time |-> StreamMaxTime, jobs |-> StreamMaxJobs, trace |-> TRUE,
                files |-> MediaFiles]
    /\ Cfg = CfgDefault
    /\ InitState

SpecStream == InitStream /\ [][NextStream]_vars

\* a library that holds a file of no media extension, scanned by backends
\* started with and without INDEX_OTHER
NextOther ==
    \/ ScanStart(1)
    \/ ScanVisit(1)
    \/ ScanReconcile(1)
    \/ \E p \in Paths : CreateFile(p)
    \/ \E p \in Paths : DeleteFile(p)
    \/ \E b \in BOOLEAN : Restart([IndexOther |-> b])

InitOther ==
    /\ bound = [time |-> OtherMaxTime, jobs |-> OtherMaxJobs, trace |-> TRUE,
                files |-> {"a.bin", "a.jpg"}]
    /\ Cfg \in {[IndexOther |-> b] : b \in BOOLEAN}
    /\ InitState

SpecOther == InitOther /\ [][NextOther]_vars

\* the job queue with two worker processes that may die at any point
NextOrphan ==
    \/ ScanStart(1)
    \/ ScanVisit(1)
    \/ ScanReconcile(1)
    \/ \E p \in Paths : CreateFile(p)
    \/ \E p \in Paths : DeleteFile(p)
    \/ \E w \in Workers : WorkerPoll(w)
    \/ \E w \in Workers : WorkerLock(w)
    \/ \E w \in Workers : WorkerFinish(w)
    \/ \E w \in Workers : WorkerCycleEnd(w)
    \/ \E w \in Workers : WorkerCrash(w)

InitOrphan ==
    /\ bound = [time |-> OrphanMaxTime, jobs |-> OrphanMaxJobs, trace |-> TRUE,
                files |-> MediaFiles]
    /\ Cfg = CfgDefault
    /\ InitState

SpecOrphan == InitOrphan /\ [][NextOrphan]_vars

\* scans of a backend that may die during a walk and is started again
NextCrash ==
    \/ ScanStart(1)
    \/ ScanVisit(1)
    \/ ScanReconcile(1)
    \/ ScanCrash(1)
    \/ \E p \in Paths : CreateFile(p)
    \/ \E p \in Paths : DeleteFile(p)

InitCrash ==
    /\ bound = [time |-> CrashMaxTime, jobs |-> CrashMaxJobs, trace |-> TRUE,
                files |-> MediaFiles]
    /\ Cfg = CfgDefault
    /\ InitState

SpecCrash == InitCrash /\ [][NextCrash]_vars

\* the queue of both job kinds: scans, the one worker and the deletion of
\* the library
NextMeta ==
    \/ ScanStart(1)
    \/ ScanVisit(1)
    \/ ScanReconcile(1)
    \/ \E lib \in LibraryIDs : DeleteLibrary(lib)
    \/ \E p \in Paths : CreateFile(p)
    \/ \E p \in Paths : DeleteFile(p)
    \/ WorkerPoll(1)
    \/ WorkerLock(1)
    \/ WorkerFinish(1)
    \/ WorkerCycleEnd(1)

InitMeta ==
    /\ bound = [time |-> MetaMaxTime, jobs |-> MetaMaxJobs, trace |-> TRUE,
                files |-> MediaFiles]
    /\ Cfg = CfgDefault
    /\ InitState

SpecMeta == InitMeta /\ [][NextMeta]_vars

\* the job table of a library that holds one photo, after the scan that
\* inserted its row, a worker that locked the thumb job and died, and k
\* further scans
RECURSIVE QueueAfterRescans(_)
QueueAfterRescans(k) ==
    IF k = 0
    THEN LockJob(EnqueueAfterUpsert({}, 1, FALSE, "photo", "a.jpg", 1), 1, 1)
    ELSE EnqueueAfterUpsert(QueueAfterRescans(k - 1), 2 * k, TRUE, "photo", "a.jpg", k + 1)

\* the media_item table after the same scans
RECURSIVE RowsAfterRescans(_)
RowsAfterRescans(k) ==
    UpsertRow(IF k = 0 THEN << >> ELSE RowsAfterRescans(k - 1),
              "a.jpg", "photo", FileSize["a.jpg"], k, k + 1)

\* the worker alone on a long queue: the photo was scanned up to
\* BatchMaxScans more times while no worker ran, and has since been removed
\* from disk
NextBatch ==
    \/ WorkerPoll(1)
    \/ WorkerLock(1)
    \/ WorkerFinish(1)
    \/ WorkerCycleEnd(1)

InitBatch ==
    /\ bound = [time |-> BatchMaxScans + 1, jobs |-> 2 * BatchMaxScans + 1, trace |-> TRUE,
                files |-> {"a.jpg"}]
    /\ Cfg = CfgDefault
    /\ \E k \in 1..BatchMaxScans :
          /\ now = k + 1
          /\ scanRuns = {[NewScanRun(LibraryID, i) EXCEPT !.finished_at = i + 1] : i \in 0..k}
          /\ items = RowsAfterRescans(k)
          /\ jobs = QueueAfterRescans(k)
          /\ nextJobID = 2 * k + 2
          /\ fails = [i \in 1..(2 * k + 1) |-> 0]
    /\ fs = {}
    /\ library = {LibraryID}
    /\ spc = [s \in Scanners |-> "idle"]
    /\ startedAt = [s \in Scanners |-> 0]
    /\ walkPos = [s \in Scanners |-> 1]
    /\ absentAll = [s \in Scanners |-> {}]
    /\ wpc = [w \in Workers |-> "idle"]
    /\ batch = [w \in Workers |-> << >>]
    /\ cur = [w \in Workers |-> NoJob]
    /\ streamReq = ""
    /\ hist = HistNone
    /\ last = LastNone
    /\ video = VideoNone

SpecBatch == InitBatch /\ [][NextBatch]_vars

\* scans, filesystem changes and the one worker, step by step
InitRetry ==
    /\ bound = [time |-> RetryMaxTime, jobs |-> RetryMaxJobs, trace |-> TRUE,
                files |-> MediaFiles]
    /\ Cfg = CfgDefault
    /\ InitState

SpecRetry == InitRetry /\ [][NextRescan]_vars

\* generateVideoThumb on every probe result
NextSeek == GenerateVideoThumb

InitSeek ==
    /\ bound = [time |-> 0, jobs |-> 0, trace |-> FALSE, files |-> {}]
    /\ Cfg = CfgDefault
    /\ now = 0
    /\ fs = {}
    /\ library = {LibraryID}
    /\ scanRuns = {}
    /\ items = << >>
    /\ jobs = {}
    /\ nextJobID = 1
    /\ spc = [s \in Scanners |-> "idle"]
    /\ startedAt = [s \in Scanners |-> 0]
    /\ walkPos = [s \in Scanners |-> 1]
    /\ absentAll = [s \in Scanners |-> {}]
    /\ wpc = [w \in Workers |-> "idle"]
    /\ batch = [w \in Workers |-> << >>]
    /\ cur = [w \in Workers |-> NoJob]
    /\ streamReq = ""
    /\ fails = << >>
    /\ hist = HistNone
    /\ last = LastNone
    /\ video \in {[probe |-> p, seek |-> NoSeek] : p \in Durations \cup {ProbeError}}

SpecSeek == InitSeek /\ [][NextSeek]_vars

\* overlapping runs of ScanLibrary on one library whose files do not change
NextOverlap ==
    \/ \E s \in Scanners : ScanStart(s)
    \/ \E s \in Scanners : ScanVisit(s)
    \/ \E s \in Scanners : ScanReconcile(s)

InitOverlap ==
    /\ bound = [time |-> OverlapMaxTime, jobs |-> OverlapMaxJobs, trace |-> TRUE,
                files |-> MediaFiles]
    /\ Cfg = CfgDefault
    /\ InitState

SpecOverlap == InitOverlap /\ [][NextOverlap]_vars

\* the one worker, never crashing, on a store whose statements may fail
\* (as all of them do once the context of Run is cancelled)
NextCancel ==
    \/ ScanStart(1)
    \/ ScanVisit(1)
    \/ ScanReconcile(1)
    \/ \E p \in Paths : CreateFile(p)
    \/ \E p \in Paths : DeleteFile(p)
    \/ WorkerPoll(1)
    \/ WorkerLock(1)
    \/ WorkerLockError(1)
    \/ WorkerFinish(1)
    \/ WorkerFinishError(1)
    \/ WorkerCycleEnd(1)

InitCancel ==
    /\ bound = [time |-> CancelMaxTime, jobs |-> CancelMaxJobs, trace |-> TRUE,
                files |-> MediaFiles]
    /\ Cfg = CfgDefault
    /\ InitState

SpecCancel == InitCancel /\ [][NextCancel]_vars

\* the worker alone, its ticker firing for ever and every tool run
\* returning, on a long queue of a photo that is gone from disk or on a
\* short queue of a photo that is there
InitDrain ==
    /\ bound = [time |-> BatchMaxScans + 1, jobs |-> 2 * BatchMaxScans + 1, trace |-> TRUE,
                files |-> {"a.jpg"}]
    /\ Cfg = CfgDefault
    /\ \E k \in 1..BatchMaxScans :
          /\ now = k + 1
          /\ scanRuns = {[NewScanRun(LibraryID, i) EXCEPT !.finished_at = i + 1] : i \in 0..k}
          /\ items = RowsAfterRescans(k)
          /\ jobs = QueueAfterRescans(k)
          /\ nextJobID = 2 * k + 2
          /\ fails = [i \in 1..(2 * k + 1) |-> 0]
          /\ fs \in IF k <= DrainMaxPresent THEN SUBSET {"a.jpg"} ELSE {{}}
    /\ library = {LibraryID}
    /\ spc = [s \in Scanners |-> "idle"]
    /\ startedAt = [s \in Scanners |-> 0]
    /\ walkPos = [s \in Scanners |-> 1]
    /\ absentAll = [s \in Scanners |-> {}]
    /\ wpc = [w \in Workers |-> "idle"]
    /\ batch = [w \in Workers |-> << >>]
    /\ cur = [w \in Workers |-> NoJob]
    /\ streamReq = ""
    /\ hist = HistNone
    /\ last = LastNone
    /\ video = VideoNone

SpecDrain ==
    /\ InitDrain
    /\ [][NextBatch]_vars
    /\ WF_vars(WorkerPoll(1))
    /\ WF_vars(WorkerLock(1))
    /\ WF_vars(WorkerFinish(1))
    /\ WF_vars(WorkerCycleEnd(1))

\* scans of the library next to the rows of a second library, whose roots
\* hold a.jpg as well and a file outside the roots of the first
NextLibraries ==
    \/ \E s \in Scanners : ScanStart(s)
    \/ \E s \in Scanners : ScanVisit(s)
    \/ \E s \in Scanners : ScanReconcile(s)
    \/ \E p \in Paths : CreateFile(p)
    \/ \E p \in Paths : DeleteFile(p)

\* the row a run of ScanLibrary(OtherLibrary) started at time 0 inserts
OtherLibraryRow(n) ==
    [library_id |-> OtherLibrary, kind |-> "photo", present |-> TRUE,
     missing_since |-> NullTime, size_bytes |-> 10,
     last_seen_at |-> 0, updated_at |-> 0,
     thumb_path |-> NullText, id |-> n, created_at |-> 1]

\* the state one run of ScanLibrary(OtherLibrary) leaves: its scan_run row,
\* a row and a thumb job for each of its two photos
InitLibraries ==
    /\ bound = [time |-> LibrariesMaxTime, jobs |-> LibrariesMaxJobs, trace |-> TRUE,
                files |-> MediaFiles]
    /\ Cfg = CfgDefault
    /\ now = 1
    /\ fs \in SUBSET bound.files
    /\ library = {LibraryID, OtherLibrary}
    /\ scanRuns = {[NewScanRun(OtherLibrary, 0) EXCEPT !.finished_at = 1]}
    /\ items = [p \in {"a.jpg", OtherRootFile} |->
                   OtherLibraryRow(IF p = "a.jpg" THEN 1 ELSE 2)]
    /\ jobs = {NewJob(1, "thumb", "a.jpg", 1), NewJob(2, "thumb", OtherRootFile, 1)}
    /\ nextJobID = 3
    /\ spc = [s \in Scanners |-> "idle"]
    /\ startedAt = [s \in Scanners |-> 0]
    /\ walkPos = [s \in Scanners |-> 1]
    /\ absentAll = [s \in Scanners |-> {}]
    /\ wpc = [w \in Workers |-> "idle"]
    /\ batch = [w \in Workers |-> << >>]
    /\ cur = [w \in Workers |-> NoJob]
    /\ streamReq = ""
    /\ fails = <<0, 0>>
    /\ hist = HistNone
    /\ last = LastNone
    /\ video = VideoNone

SpecLibraries == InitLibraries /\ [][NextLibraries]_vars

\* ------------------------------------------------------------------ claims

JobIDs(js) == {j.id : j \in js}

\* C1: no job is between lock acquisition and its delete/unlock in two
\* workers at once, for any number of workers polling the same store.
C1_OneHolderPerJob ==
    \A w1 \in Workers : \A w2 \in Workers :
        (w1 # w2 /\ wpc[w1] = "gen" /\ wpc[w2] = "gen") => cur[w1].jobID # cur[w2].jobID

\* C2: in every reachable state every media item with present = false has a
\* non-null missing_since.
C2_AbsentHasMissingSince ==
    \A p \in DOMAIN items : ~items[p].present => items[p].missing_since # NullTime

\* a row marked absent by a failed stream open
C2_Witness ==
    /\ last.op = "streamfail"
    /\ \E p \in last.paths : ~items[p].present

ReconcileStep(s) == spc[s] = "walk" /\ spc'[s] = "idle"

\* C4 as stated: an item of the library absent from the filesystem during
\* the whole run is present = false once the run completes and, if its
\* missing_since was null, missing_since equals the start time of the run.
C4_MissingSinceIsStartTime ==
    [][\A s \in Scanners : ReconcileStep(s) =>
          \A p \in absentAll[s] \cap DOMAIN items :
             items[p].library_id = LibraryID =>
                /\ ~items'[p].present
                /\ items[p].missing_since = NullTime =>
                      items'[p].missing_since = startedAt[s]]_vars

\* C4 as amended: such an item is present = false once the run completes
\* and, if its missing_since was null, missing_since is the time at which
\* the reconciliation statement ran, which is later than the start time of
\* the run; a missing_since already set is kept.
C4_MissingSinceIsReconcileTime ==
    [][\A s \in Scanners : ReconcileStep(s) =>
          \A p \in absentAll[s] \cap DOMAIN items :
             items[p].library_id = LibraryID =>
                /\ ~items'[p].present
                /\ items[p].missing_since = NullTime =>
                      (items'[p].missing_since = now /\ now > startedAt[s])
                /\ items[p].missing_since # NullTime =>
                      items'[p].missing_since = items[p].missing_since]_vars

\* a run has just flipped an item that was absent during the whole run
C4_Witness ==
    /\ last.op = "reconcile"
    /\ \E p \in last.paths : /\ ~items[p].present
                             /\ items[p].missing_since = now
                             /\ items[p].last_seen_at < last.n

\* C5: a scan that observes a file whose row already exists leaves the row
\* present = true, missing_since = null and last_seen_at = the start time of
\* that run.
C5_UpsertRevives ==
    [][\A s \in Scanners :
          (/\ spc[s] = "walk"
           /\ walkPos[s] <= Len(WalkOrder)
           /\ walkPos'[s] > walkPos[s]
           /\ WalkOrder[walkPos[s]] \in fs \cap DOMAIN items) =>
             LET p == WalkOrder[walkPos[s]]
             IN /\ items'[p].present
                /\ items'[p].missing_since = NullTime
                /\ items'[p].last_seen_at = startedAt[s]]_vars

\* the row that was just upserted had been marked missing
C5_Witness ==
    /\ last.op = "upsert"
    /\ last.pre = "missing"
    /\ \E p \in last.paths : items[p].present /\ items[p].missing_since = NullTime

\* C6: a thumb job that fails on every attempt is unlocked in the queue after
\* each of its first 4 failures, absent after its 5th, and never fails a 6th
\* time.
C6_JobCeiling ==
    \A id \in 1..Len(fails) :
        /\ fails[id] <= maxThumbAttempts
        /\ fails[id] >= maxThumbAttempts => id \notin JobIDs(jobs)
        /\ (fails[id] \in 1..(maxThumbAttempts - 1) /\ \A w \in Workers : cur[w].jobID # id) =>
              \A j \in jobs : j.id = id => j.locked_at = NullTime

\* C7: when thumbnail generation succeeds, whatever the number of earlier
\* failed attempts, the job row is gone and thumb_path of the item is set.
C7_SuccessRemovesJob ==
    [][\A w \in Workers :
          (wpc[w] = "gen" /\ wpc'[w] = "batch" /\ last'.op = "success") =>
             /\ cur[w].jobID \notin JobIDs(jobs')
             /\ items'[cur[w].itemID].thumb_path # NullText]_vars

\* a job has just succeeded after 4 failed attempts
C7_Witness ==
    /\ last.op = "success"
    /\ last.n = maxThumbAttempts - 1
    /\ \E p \in last.paths : items[p].thumb_path # NullText

ThumbJobs(js) == {j \in js : j.kind = "thumb"}

\* C8: of two successive runs of ScanLibrary with no filesystem change and
\* no other activity, the second leaves the set of thumb job rows as the
\* first left it.
C8_RescanAddsNoThumbJob ==
    hist.phase = 4 => ThumbJobs(jobs) = ThumbJobs(hist.jobs)

\* a media_item row without last_seen_at and updated_at
RowCore(r) ==
    [library_id |-> r.library_id, kind |-> r.kind, present |-> r.present,
     missing_since |-> r.missing_since, size_bytes |-> r.size_bytes,
     thumb_path |-> r.thumb_path]

\* C9: of two successive runs of ScanLibrary with no filesystem change, the
\* second creates or removes no media_item row and leaves every row as the
\* first left it, last_seen_at and updated_at excepted.
C9_RescanKeepsRows ==
    hist.phase = 4 =>
        /\ DOMAIN items = DOMAIN hist.items
        /\ \A p \in DOMAIN items : RowCore(items[p]) = RowCore(hist.items[p])

\* the second run re-observed a file that has a thumbnail
C9_Witness ==
    /\ hist.phase = 4
    /\ \E p \in DOMAIN items : /\ items[p].last_seen_at # hist.items[p].last_seen_at
                               /\ items[p].thumb_path # NullText

\* C10: no thumb job exists whose target item has kind audio or other.
C10_NoThumbJobForAudio ==
    \A j \in jobs : j.kind = "thumb" => items[j.item_id].kind \notin {"audio", "other"}

\* C11: in every reachable state the queue holds at most one job row per
\* (item, kind) pair.
C11_OneJobPerItemKind ==
    \A j1 \in jobs : \A j2 \in jobs :
        (j1.item_id = j2.item_id /\ j1.kind = j2.kind) => j1.id = j2.id

\* the walk step of scan s that observes path p
VisitStep(s, p) ==
    /\ spc[s] = "walk"
    /\ walkPos[s] <= Len(WalkOrder)
    /\ WalkOrder[walkPos[s]] = p
    /\ walkPos'[s] > walkPos[s]
    /\ p \in fs

\* C12: a scan that inserts a new row of kind photo or video enqueues
\* exactly one thumb job for it, with attempts = 0 and unlocked, and no
\* metadata job; for a new row of kind audio or other it enqueues nothing.
C12_InsertEnqueuesOneThumb ==
    [][\A s \in Scanners : \A p \in Paths :
          (VisitStep(s, p) /\ p \notin DOMAIN items /\ p \in DOMAIN items') =>
             IF items'[p].kind \in {"photo", "video"}
             THEN /\ jobs \subseteq jobs'
                  /\ \E j \in jobs' \ jobs :
                        /\ jobs' \ jobs = {j}
                        /\ j.kind = "thumb" /\ j.item_id = p
                        /\ j.attempts = 0 /\ j.locked_at = NullTime
             ELSE jobs' = jobs]_vars

\* a photo has just been inserted and its thumb job is queued
C12_Witness ==
    /\ last.op = "upsert"
    /\ last.pre = "new"
    /\ \E p \in last.paths :
          /\ items[p].kind = "photo"
          /\ \E j \in jobs : j.item_id = p /\ j.kind = "thumb" /\ j.attempts = 0

\* the extension of p is in none of the photo, audio and video sets
NoMediaExt(p) == ExtOf[p] \notin ExtPhoto \cup ExtAudio \cup ExtVideo

\* C13: a scan that observes a file whose extension is in none of the
\* photo, audio and video sets leaves a row of kind other for it, seen in
\* this run, if the index-other flag is enabled; with the flag disabled it
\* creates no row and changes no existing row.
C13_IndexOtherGating ==
    [][\A s \in Scanners : \A p \in Paths :
          (VisitStep(s, p) /\ NoMediaExt(p)) =>
             IF Cfg.IndexOther
             THEN /\ p \in DOMAIN items'
                  /\ items'[p].kind = "other"
                  /\ items'[p].last_seen_at = startedAt[s]
             ELSE items' = items]_vars

\* with the flag disabled the walk has just passed such a file, which is on
\* disk and has a row from an earlier run, and left the row as it was
C13_Witness ==
    /\ ~Cfg.IndexOther
    /\ last.op = "skip"
    /\ \E p \in last.paths :
          /\ NoMediaExt(p)
          /\ p \in DOMAIN items
          /\ items[p].kind = "other"
          /\ \E s \in Scanners : spc[s] = "walk" /\ items[p].last_seen_at < startedAt[s]

\* C14: when StreamByID has selected a present row and the file cannot be
\* opened, the call reports not-found and leaves the row with present =
\* false and missing_since non-null: the time of the failure if it was
\* null, its former value otherwise.
C14_StreamSelfHeal ==
    [][(streamReq # "" /\ streamReq' = "" /\ streamReq \notin fs) =>
          /\ last'.op = "streamfail"
          /\ ~items'[streamReq].present
          /\ items'[streamReq].missing_since # NullTime
          /\ items'[streamReq].missing_since =
                IF items[streamReq].missing_since = NullTime THEN now
                ELSE items[streamReq].missing_since]_vars

\* a failed open has just flipped a row that was present and stamped
\* missing_since with the time of the failure
C14_Witness ==
    /\ last.op = "streamfail"
    /\ last.pre = "unset"
    /\ \E p \in last.paths : /\ p \notin fs
                             /\ ~items[p].present
                             /\ items[p].missing_since = last.n

\* C15: StreamByID goes on to open the file only for a row that exists and
\* is present; the not-found answer for an unknown id or an absent row
\* changes no catalog row and opens nothing.
C15_StreamOnlyPresent ==
    [][/\ \A p \in Paths : (streamReq = "" /\ streamReq' = p) =>
                               (p \in DOMAIN items /\ items[p].present)
       /\ (last'.op = "notfound" /\ last' # last) =>
             /\ items' = items
             /\ jobs' = jobs
             /\ streamReq' = streamReq
             /\ \A p \in last'.paths : p \in DOMAIN items => ~items[p].present]_vars

\* not-found has just been answered for a row marked absent whose file is
\* on disk again
C15_Witness ==
    /\ last.op = "notfound"
    /\ last.pre = "absent"
    /\ \E p \in last.paths : p \in fs /\ ~items[p].present

\* C16: ScanLibrary for a library id that does not exist returns an error
\* and records no scan_run row, inserts or updates no media item and
\* enqueues no job; no scan starts without its library.
C16_NoLibraryNoEffect ==
    [][/\ (last'.op = "scanerror" /\ last'.pre = "nolibrary" /\ last' # last) =>
             /\ last'.n \notin library
             /\ scanRuns' = scanRuns
             /\ items' = items
             /\ jobs' = jobs
       /\ \A s \in Scanners : (spc[s] = "idle" /\ spc'[s] = "walk") => LibraryID \in library]_vars

\* a scan of a library that does not exist has just been refused while the
\* catalog holds rows, jobs and scan runs of the existing library
C16_Witness ==
    /\ last.op = "scanerror"
    /\ last.pre = "nolibrary"
    /\ last.n \notin library
    /\ fs # {}
    /\ items # << >> /\ jobs # {} /\ scanRuns # {}

\* C17: for an existing library ScanLibrary never returns an error.
C17_ScanNeverFails ==
    last.op = "scanerror" => last.n \notin library

\* the failed open of StreamByID for the row of path p
StreamFailStep(p) == streamReq = p /\ streamReq' = "" /\ p \notin fs

\* C18: present of an item changes from true to false only in the
\* reconciliation step of a scan or in a failed open of StreamByID; no step
\* of the thumbnail worker changes present or missing_since of any item.
C18_OnlyScanAndStreamMarkMissing ==
    [][\A p \in DOMAIN items \cap DOMAIN items' :
          /\ (items[p].present /\ ~items'[p].present) =>
                ((\E s \in Scanners : ReconcileStep(s)) \/ StreamFailStep(p))
          /\ wpc' # wpc =>
                /\ items'[p].present = items[p].present
                /\ items'[p].missing_since = items[p].missing_since]_vars

\* a thumb job has just failed on a source file that is gone, and its item
\* is still marked present
C18_Witness ==
    /\ last.op = "fail"
    /\ \E p \in last.paths : /\ p \notin fs
                             /\ p \in DOMAIN items
                             /\ items[p].present
                             /\ items[p].missing_since = NullTime

\* C19 as stated: when a run of ScanLibrary that no other scan overlaps
\* completes, every item of the library has present = true if and only if
\* its last_seen_at is the start time of that run.
C19_PresentIffSeen ==
    [][\A s \in Scanners :
          (ReconcileStep(s) /\ \A t \in Scanners \ {s} : spc[t] = "idle") =>
             \A p \in DOMAIN items' :
                items'[p].library_id = LibraryID =>
                   (items'[p].present <=> items'[p].last_seen_at = startedAt[s])]_vars

\* C19 as amended: when such a run completes, every item of the library
\* with present = true was observed by the run (last_seen_at is its start
\* time), and an item observed by the run has present = true unless a
\* failed open of StreamByID marked it missing after the run started
\* (missing_since is later than the start time).
C19_PresentImpliesSeen ==
    [][\A s \in Scanners :
          (ReconcileStep(s) /\ \A t \in Scanners \ {s} : spc[t] = "idle") =>
             \A p \in DOMAIN items' :
                items'[p].library_id = LibraryID =>
                   /\ items'[p].present => items'[p].last_seen_at = startedAt[s]
                   /\ (items'[p].last_seen_at = startedAt[s] /\ ~items'[p].present) =>
                         items'[p].missing_since > startedAt[s]]_vars

\* a run has just completed with one item it observed still present and
\* another it observed marked missing by a failed open in the meantime
C19_Witness ==
    /\ last.op = "reconcile"
    /\ \E p \in DOMAIN items : items[p].present /\ items[p].last_seen_at = last.n
    /\ \E p \in DOMAIN items : /\ ~items[p].present
                               /\ items[p].last_seen_at = last.n
                               /\ items[p].missing_since > last.n

\* C20: no scanner, worker or streaming step deletes a media_item row; a row
\* disappears only with its library.
C20_RowsOnlyGrow ==
    [][\A p \in DOMAIN items :
          p \notin DOMAIN items' =>
             (items[p].library_id \in library /\ items[p].library_id \notin library')]_vars

\* the deletion of the library has just removed catalog rows
C20_Witness ==
    /\ last.op = "deletelibrary"
    /\ last.paths # {}
    /\ \A p \in last.paths : p \notin DOMAIN items
\* a job row that is locked while no worker has it in its batch or in hand
Orphaned(j) ==
    /\ j.locked_at # NullTime
    /\ \A w \in Workers :
          /\ cur[w].jobID # j.id
          /\ \A i \in 1..Len(batch[w]) : batch[w][i].jobID # j.id

\* C21: a job left locked by a worker that died after the lock and before
\* the delete or unlock stays locked for ever: no later poll cycle of any
\* worker selects it, and no step unlocks, retries or removes its row.
C21_OrphanedLockStays ==
    [][\A j \in jobs : Orphaned(j) =>
          /\ j \in jobs'
          /\ \A w \in Workers :
                /\ cur'[w].jobID # j.id
                /\ \A i \in 1..Len(batch'[w]) : batch'[w][i].jobID # j.id]_vars

\* a worker has just died with a locked job in hand and the row is orphaned
C21_Witness ==
    /\ last.op = "crash"
    /\ last.pre = "gen"
    /\ \E j \in jobs : j.id = last.n /\ Orphaned(j)

\* the thumb jobs queued for item p
ThumbJobsOf(js, p) == {j \in js : j.kind = "thumb" /\ j.item_id = p}

FailStep(w) == wpc[w] = "gen" /\ wpc'[w] = "batch" /\ last'.op = "fail"

\* C23: after a failed generation that does not reach the ceiling the job
\* row is in the queue with locked_at null, attempts one higher than
\* before and last_error set, and the selection of the next poll cycle
\* reads it.
C23_FailureRequeues ==
    [][\A w \in Workers :
          (FailStep(w) /\ cur[w].attempts + 1 < maxThumbAttempts) =>
             \A j \in jobs : j.id = cur[w].jobID =>
                \E k \in jobs' :
                   /\ k.id = j.id
                   /\ k.locked_at = NullTime
                   /\ k.attempts = j.attempts + 1
                   /\ k.last_error # NullText
                   /\ k \in Pending(jobs', items')]_vars

\* a job has just failed for the second time and is queued for a retry
C23_Witness ==
    /\ last.op = "fail"
    /\ last.n = 1
    /\ \E j \in jobs :
          /\ j.item_id \in last.paths
          /\ j.attempts = 2 /\ j.locked_at = NullTime /\ j.last_error # NullText

C25_MetadataJobsUntouched ==
    [][/\ \A j \in jobs : j.kind = "metadata" =>
             (j \in jobs' \/ j.item_id \notin DOMAIN items')
       /\ \A w \in Workers :
             /\ \A i \in 1..Len(batch'[w]) :
                   \A j \in jobs : j.id = batch'[w][i].jobID => j.kind = "thumb"
             /\ \A j \in jobs : j.id = cur'[w].jobID => j.kind = "thumb"]_vars

\* the worker has just ended the thumb job of an item whose metadata job
\* is still queued, unlocked and with no attempt counted
C25_Witness ==
    /\ last.op \in {"success", "fail"}
    /\ \E j \in jobs :
          /\ j.kind = "metadata"
          /\ j.item_id \in last.paths
          /\ j.attempts = 0 /\ j.locked_at = NullTime /\ j.last_error = NullText

\* the step of worker w that reads its batch from the queue
PollStep(w) == wpc[w] = "idle" /\ wpc'[w] = "batch"

\* the job rows worker w has in the batch sq
BatchRows(js, sq) == {j \in js : \E i \in 1..Len(sq) : sq[i].jobID = j.id}

\* C26: a poll cycle takes at most 10 jobs, all of kind thumb and unlocked
\* when selected, none with a later run_at than an unlocked thumb job left
\* out; it processes only jobs of that selection, so a job that was locked
\* at selection time is not processed in the cycle.
C26_BatchSelection ==
    [][\A w \in Workers :
          /\ PollStep(w) =>
                LET sel == BatchRows(jobs, batch'[w]) IN
                /\ Len(batch'[w]) <= BatchLimit
                /\ Cardinality(sel) = Len(batch'[w])
                /\ \A j \in sel : j.kind = "thumb" /\ j.locked_at = NullTime
                /\ \A j \in sel : \A r \in jobs \ sel :
                      (r.kind = "thumb" /\ r.locked_at = NullTime) => j.run_at <= r.run_at
          /\ ~PollStep(w) =>
                /\ Len(batch'[w]) <= Len(batch[w])
                /\ BatchRows(jobs', batch'[w]) \subseteq BatchRows(jobs, batch[w])
                /\ (cur'[w] # cur[w] /\ cur'[w] # NoJob) =>
                      \E i \in 1..Len(batch[w]) : batch[w][i] = cur'[w]]_vars

\* a poll has just taken 10 jobs out of more than 10 unlocked thumb jobs,
\* leaving out a later one and an earlier one that is locked
C26_Witness ==
    \E w \in Workers :
        LET sel == BatchRows(jobs, batch[w]) IN
        /\ wpc[w] = "batch"
        /\ Len(batch[w]) = BatchLimit
        /\ Cardinality(sel) = BatchLimit
        /\ \E r \in jobs \ sel :
              /\ r.kind = "thumb" /\ r.locked_at = NullTime
              /\ \A j \in sel : j.run_at < r.run_at
        /\ \E r \in jobs \ sel :
              /\ r.kind = "thumb" /\ r.locked_at # NullTime
              /\ \A j \in sel : r.run_at < j.run_at

\* C27: a thumb job whose source file is absent, or whose item is neither a
\* photo nor a video, fails whatever an external tool would have returned,
\* and the failure is handled like any other: the row stays unlocked with
\* one more attempt counted until the 5th failure removes it, and the item
\* rows are unchanged.
C27_NoSourceIsOrdinaryFailure ==
    [][\A w \in Workers :
          (/\ wpc[w] = "gen" /\ wpc'[w] = "batch"
           /\ (cur[w].itemID \notin fs \/ cur[w].kind \notin {"photo", "video"})) =>
             LET id == cur[w].jobID IN
             /\ last'.op = "fail"
             /\ items' = items
             /\ fails'[id] = fails[id] + 1
             /\ IF fails'[id] >= maxThumbAttempts
                THEN id \notin JobIDs(jobs')
                ELSE \E k \in jobs' :
                        /\ k.id = id
                        /\ k.locked_at = NullTime
                        /\ k.attempts = fails'[id]
                        /\ k \in Pending(jobs', items')]_vars

\* the thumb job of a photo that is gone from disk has just failed for the
\* 5th time and is removed, the row of the photo still marked present
C27_Witness ==
    /\ last.op = "fail"
    /\ last.n = maxThumbAttempts - 1
    /\ \E p \in last.paths :
          /\ p \notin fs
          /\ items[p].kind = "photo"
          /\ items[p].present
          /\ ThumbJobsOf(jobs, p) = {}

Max2(a, b) == IF a >= b THEN a ELSE b

Min2(a, b) == IF a <= b THEN a ELSE b

\* C28: for every duration d >= 0 the seek offset is min(max(0.10 d, 5 s),
\* 120 s) when that value does not exceed d and 0.25 d otherwise; so it
\* never exceeds the duration, and a failed probe (d = 30 s) gives 5 s.
C28_SeekOffset ==
    video.seek # NoSeek =>
        LET d == getVideoDuration(video.probe)
            clamped == Min2(Max2(d \div 10, 5 * TicksPerSecond), 120 * TicksPerSecond)
        IN /\ video.seek = IF clamped <= d THEN clamped ELSE d \div 4
           /\ video.seek <= d
           /\ video.probe = ProbeError => video.seek = 5 * TicksPerSecond

\* the offset of a video of 3 s, shorter than the minimum offset of 5 s
C28_Witness ==
    /\ video.probe = 3 * TicksPerSecond
    /\ video.seek = 300

\* C29: the scan_run row of a run, with its started_at, is there before the
\* run upserts anything; that started_at is the last_seen_at of every row
\* the run upserts and the watermark of its reconciliation; finished_at is
\* set only in the step that has applied the reconciliation, and a run
\* whose reconciliation fails keeps a null finished_at.
C29_ScanRunOrdering ==
    [][/\ \A s \in Scanners :
             /\ (spc[s] = "walk" /\ walkPos'[s] > walkPos[s] /\ items' # items) =>
                   /\ \E r \in scanRuns :
                         /\ r.library_id = LibraryID
                         /\ r.started_at = startedAt[s]
                         /\ r.finished_at = NullTime
                   /\ \A p \in DOMAIN items' :
                         (IF p \in DOMAIN items THEN items'[p] # items[p] ELSE TRUE) =>
                            items'[p].last_seen_at = startedAt[s]
             /\ (ReconcileStep(s) /\ last'.op = "scanerror") =>
                   /\ items' = items
                   /\ \A r \in scanRuns' :
                         r.started_at = startedAt[s] => r.finished_at = NullTime
       /\ \A r \in scanRuns : \A r2 \in scanRuns' :
             (r2.id = r.id /\ r.finished_at = NullTime /\ r2.finished_at # NullTime) =>
                /\ \E s \in Scanners : ReconcileStep(s) /\ startedAt[s] = r.started_at
                /\ \A p \in DOMAIN items' :
                      IF items[p].library_id = r.library_id /\ items[p].last_seen_at < r.started_at
                      THEN ~items'[p].present
                      ELSE items'[p] = items[p]]_vars

\* a run has ended on a failed reconciliation: its scan_run row has no
\* finished_at and a row it did not see is still marked present, next to
\* the closed scan_run row of an earlier run
C29_Witness ==
    /\ last.op = "scanerror"
    /\ last.pre = "reconcile"
    /\ \E r \in scanRuns :
          /\ r.finished_at = NullTime
          /\ \E p \in DOMAIN items : items[p].present /\ items[p].last_seen_at < r.started_at
          /\ \E r0 \in scanRuns : r0.finished_at # NullTime /\ r0.finished_at <= r.started_at

\* C30: over an unchanged filesystem, whenever every run of ScanLibrary on
\* the library has completed, every file that is on disk and has a row is
\* marked present, however the runs were interleaved.
C30_OverlapKeepsPresent ==
    (\A s \in Scanners : spc[s] = "idle") =>
        \A p \in fs \cap DOMAIN items : items[p].present

\* C31: in every reachable state every job row has attempts between 0 and
\* 4, also when two workers process the same store.
C31_AttemptsBelowCeiling ==
    \A j \in jobs : j.attempts \in 0..(maxThumbAttempts - 1)

\* C32: with no process crash, once the poll cycle of the worker has ended
\* no job is locked: every job the cycle locked was deleted or unlocked,
\* also when statements of the cycle fail because the context was
\* cancelled in the middle of the batch.
C32_NoLockAfterCycle ==
    (\A w \in Workers : wpc[w] = "idle") => \A j \in jobs : j.locked_at = NullTime

\* C33: with one worker that keeps polling, never dies and whose tool runs
\* return, every thumb job that is in the queue unlocked is removed in the
\* end, also when more than 10 jobs are queued and the earliest keep
\* failing.
C33_QueueDrains ==
    \A id \in 1..(2 * BatchMaxScans + 1) :
        (\E j \in jobs : j.id = id /\ j.kind = "thumb" /\ j.locked_at = NullTime)
            ~> (id \notin JobIDs(jobs))

\* a queue of more than 10 unlocked thumb jobs has drained by the ceiling:
\* the latest job has failed 5 times and no unlocked thumb job is left
C33_Witness ==
    /\ Len(fails) > 2 * BatchLimit + 1
    /\ fails[Len(fails)] = maxThumbAttempts
    /\ \A j \in jobs : j.kind = "thumb" => j.locked_at # NullTime
    /\ \A w \in Workers : wpc[w] = "idle"

\* C34: last_seen_at of an item never decreases: whatever the order or
\* interleaving of scans, each upsert leaves it at least at its previous
\* value.
C34_LastSeenMonotone ==
    [][\A p \in DOMAIN items :
          p \in DOMAIN items' => items'[p].last_seen_at >= items[p].last_seen_at]_vars

\* C35: the upsert of a file whose row exists leaves id, created_at and
\* thumb_path of the row as they were, and no two rows of the table share
\* an id.
C35_UpdateKeepsIdentity ==
    [][/\ \A s \in Scanners : \A p \in Paths :
             (VisitStep(s, p) /\ p \in DOMAIN items /\ p \in DOMAIN items') =>
                /\ items'[p].id = items[p].id
                /\ items'[p].created_at = items[p].created_at
                /\ items'[p].thumb_path = items[p].thumb_path
       /\ \A p \in DOMAIN items' : \A q \in DOMAIN items' :
             items'[p].id = items'[q].id => p = q]_vars

\* a photo with a generated thumbnail has just been scanned again, in a
\* later run than the one that created its row
C35_Witness ==
    /\ last.op = "upsert"
    /\ last.pre = "present"
    /\ \E p \in last.paths :
          /\ items[p].thumb_path # NullText
          /\ items[p].created_at <= items[p].last_seen_at
          /\ items[p].id = 1
          /\ Cardinality(DOMAIN items) = 2

\* C36: a step of ScanLibrary(L) leaves every row of another library as it
\* was, unless the step is the walk step that observes the row's path; the
\* reconciliation changes present only on rows of L.
C36_OtherLibrariesUntouched ==
    [][\A s \in Scanners :
          /\ (spc[s] # spc'[s] \/ walkPos[s] # walkPos'[s]) =>
                \A p \in DOMAIN items :
                    (items[p].library_id # LibraryID /\ ~VisitStep(s, p)) =>
                        /\ p \in DOMAIN items'
                        /\ items'[p].present = items[p].present
                        /\ items'[p].missing_since = items[p].missing_since
                        /\ items'[p].last_seen_at = items[p].last_seen_at
          /\ ReconcileStep(s) =>
                \A p \in DOMAIN items :
                    items'[p].present # items[p].present =>
                        items[p].library_id = LibraryID]_vars

\* a run has just reconciled while a present row of the other library
\* was last seen before the run started, and has marked a row of its own
C36_Witness ==
    /\ last.op = "reconcile"
    /\ \E q \in DOMAIN items :
          /\ items[q].library_id = LibraryID
          /\ ~items[q].present
          /\ items[q].updated_at = now
    /\ \E p \in DOMAIN items :
          /\ items[p].library_id = OtherLibrary
          /\ items[p].present
          /\ items[p].last_seen_at < last.n

\* the step of StreamByID in which os.Open(p) succeeds
ServeStep(p) == streamReq = p /\ streamReq' = "" /\ p \in fs

\* C37: a StreamByID call whose open succeeds changes no media_item row,
\* whether the file is then served or f.Stat fails.
C37_ServeChangesNoRow ==
    [][\A p \in Paths : ServeStep(p) => items' = items]_vars

\* a present row has just been served, some time after the run that saw it
C37_Witness ==
    /\ last.op = "served"
    /\ \E p \in last.paths :
          /\ items[p].present
          /\ items[p].missing_since = NullTime
          /\ items[p].updated_at < now

\* C38: every job row references an existing media_item row and every
\* media_item row an existing library row, in every reachable state; a
\* library deleted under a running scan or worker cycle leaves nothing
\* behind, and their later steps create no row for it.
C38_ReferentialIntegrity ==
    /\ \A j \in jobs : j.item_id \in DOMAIN items
    /\ \A p \in DOMAIN items : items[p].library_id \in library

\* the worker has just finished a job whose row went with its library, while
\* a scan of that library is still walking and has a file left to visit
C38_Witness ==
    /\ last.op = "success"
    /\ \A p \in last.paths : p \notin DOMAIN items
    /\ LibraryID \notin library
    /\ \E s \in Scanners : /\ spc[s] = "walk"
                            /\ walkPos[s] <= Len(WalkOrder)
                            /\ WalkOrder[walkPos[s]] \in fs

\* C39: with the extension configuration fixed, every item whose
\* thumb_path is set has kind photo or video; a thumb job for an item of
\* kind audio or other never makes the worker record a thumb path.
C39_ThumbOnlyForVisualKinds ==
    \A p \in DOMAIN items :
        items[p].thumb_path # NullText => items[p].kind \in {"photo", "video"}

\* the worker has just failed the thumb job of an audio item whose file
\* exists, next to a photo whose thumbnail it has recorded
C39_Witness ==
    /\ last.op = "fail"
    /\ \E p \in last.paths :
          /\ p \in fs
          /\ p \in DOMAIN items
          /\ items[p].kind = "audio"
          /\ items[p].thumb_path = NullText
    /\ \E q \in DOMAIN items : items[q].thumb_path # NullText

====
